---------------------------- MODULE Spec2Model ----------------------------
(***************************************************************************)
(* Model of src/camera_ui.py: the Camera wrapper and the CameraUI frame    *)
(* loop (start_camera, stop_camera, update_preview, on_close, the line     *)
(* slider) with the attentiveness decision _is_user_attentive.             *)
(*                                                                         *)
(* The class body defines several methods more than once.  Python binds    *)
(* the last definition of a name, so the model follows                     *)
(*   __init__            lines 53-92                                       *)
(*   _load_cascade       lines 135-146                                     *)
(*   _get_nose_center    lines 107-122                                     *)
(*   _is_user_attentive  lines 177-198                                     *)
(*   start_camera        lines 233-249                                     *)
(*   stop_camera         lines 251-256                                     *)
(*   update_preview      lines 258-308                                     *)
(*   on_close            lines 310-313                                     *)
(* The signature at line 177 omits line_y although the body reads it at    *)
(* line 198; update_preview computes line_y at line 278 and hands it over  *)
(* at line 279 (line 280 repeats the call without it), so the model passes *)
(* it as the third argument and evaluates the decision once per frame.     *)
(* Lines 148-166 follow a return and never run: last_face (line 157) is    *)
(* never assigned by the running code.  The shadowed definitions at lines  *)
(* 124-133 and 168-175 are not part of the model.                          *)
(*                                                                         *)
(* The detectors and the capture device are external: what they return is  *)
(* an input of each step, drawn from small sets.                           *)
(*                                                                         *)
(* Spec is the program.  SpecPure applies the pure functions (the          *)
(* largest-area selection of lines 191 and 277, and the band clamp of the  *)
(* specification, which the program does not have) to drawn inputs.        *)
(***************************************************************************)
EXTENDS Integers, Sequences, FiniteSets, TLC

VARIABLES
    running,                \* CameraUI.running
    capture,                \* Camera.capture: "None", "opened" or "unopened"
    start_button,           \* state of the Start button: "normal" / "disabled"
    stop_button,            \* state of the Stop button
    line_position_percent,  \* the IntVar behind the line slider
    face_cascade,           \* "loaded" or "None"
    nose_cascade,           \* "loaded" or "None"
    detectors_ready,        \* CameraUI.detectors_ready
    last_face,              \* CameraUI.last_face (NoRect when absent)
    preview_text,           \* text of the preview label
    pending,                \* update_preview callbacks scheduled with root.after
    destroyed,              \* root.destroy() has run
    result,                 \* what the last run of update_preview produced
    seen,                   \* history: the face rectangle detected most recently
                            \* since the last successful start_camera
    seen_before,            \* history: a face was detected before the last
                            \* successful start_camera
    calc                    \* the last application of a pure function to drawn
                            \* inputs (SpecPure only)

\* the state of the program
progvars == <<running, capture, start_button, stop_button,
              line_position_percent, face_cascade, nose_cascade,
              detectors_ready, last_face, preview_text, pending, destroyed,
              result, seen, seen_before>>

vars == <<progvars, calc>>

----------------------------------------------------------------------------
(* Bounds of the model. *)

\* longest face candidate list a frame's detection returns
MaxFaces == 2

\* longest nose candidate list a face's detection returns
MaxNoses == 2

\* most update_preview callbacks waiting in the Tk event queue
MaxPending == 2

\* largest frame height the band clamp is applied to
MaxClampHeight == 6

----------------------------------------------------------------------------
(* Program constants. *)

\* tk.Scale from_=20
SliderFrom == 20

\* tk.Scale to=85
SliderTo == 85

\* tk.IntVar(value=55)
SliderDefault == 55

\* minSize=(80, 80) of the face detection
MinFaceSize == 80

----------------------------------------------------------------------------
(* Input domains. *)

\* absent rectangle / absent point (Python None)
NoRect == <<>>

NoPoint == <<>>

\* frame.shape[0] of the frames the device delivers
FrameHeights == {1, 300}

\* settings the user drags the slider to
SliderValues == {v \in {SliderFrom, 40, 50, SliderDefault, SliderTo} :
                    SliderFrom <= v /\ v <= SliderTo}

\* face rectangles <<x, y, w, h>> the face detector may report
FaceRects == {r \in {<<100, 100, 80, 80>>, <<60, 40, 80, 80>>, <<50, 50, 100, 100>>} :
                 r[3] >= MinFaceSize /\ r[4] >= MinFaceSize}

\* nose rectangles <<nx, ny, nw, nh>>, relative to the face region
NoseRects == {<<30, 30, 20, 20>>, <<20, 50, 30, 30>>}

\* candidate lists of at most n rectangles of S; a detection reports a
\* rectangle once
SeqUpTo(S, n) ==
    UNION {{s \in [1..k -> S] : \A i, j \in 1..k : i # j => s[i] # s[j]} :
           k \in 0..n}

\* what one read of the device and the detections on it return; the nose
\* detection runs only when the nose cascade is loaded
FramesOf(NoseSet) ==
    {[ok |-> FALSE, height |-> 0, faces |-> <<>>, noses |-> <<>>]}
    \cup
    UNION {
        {[ok |-> TRUE, height |-> H, faces |-> fs, noses |-> ns] :
            fs \in SeqUpTo({r \in FaceRects : r[2] + r[4] <= H}, MaxFaces),
            ns \in SeqUpTo(NoseSet, MaxNoses)} :
        H \in FrameHeights}

FramesWithNose == FramesOf(NoseRects)

FramesNoNose == FramesOf({})

Frames(withNose) == IF withNose THEN FramesWithNose ELSE FramesNoNose

----------------------------------------------------------------------------
(* Pure helpers. *)

Area(r) == r[3] * r[4]

\* max(seq, key=lambda r: r[2] * r[3]): Python's max keeps the first maximal item
LargestFirstItem(s) == s[1]

RECURSIVE Largest(_)
Largest(s) ==
    IF Len(s) = 1 THEN s[1]
    ELSE LET rest == Largest(Tail(s))
         IN  IF Area(s[1]) >= Area(rest) THEN s[1] ELSE rest

\* Band clamp of the specification (section 4.2):
\* max(0, min(position, frameHeight - 1)); camera_ui.py has no clamp
Min(a, b) == IF a <= b THEN a ELSE b

Max(a, b) == IF a >= b THEN a ELSE b

clamp_after_min(p, h) == Max(0, Min(p, h) - 1)

clamp(p, h) == Max(0, Min(p, h - 1))

\* pairs <<height, percent>> of the modelled heights and the slider range for
\* which the double product height * (percent / 100.0) is just below the
\* integer height * percent / 100, so that int() yields one less
LineShort == {<<300, 41>>, <<300, 57>>, <<300, 69>>, <<300, 82>>}

\* int(frame.shape[0] * (self.line_position_percent.get() / 100.0))
LineYCeil(H, pct) == (H * pct + 99) \div 100

LineY(H, pct) ==
    (H * pct) \div 100 - (IF <<H, pct>> \in LineShort THEN 1 ELSE 0)

\* face heights below 400 for which the double product h * 0.58 is just
\* below the integer 58 * h / 100
ProxyShort == {50, 100, 200}

\* int(h * 0.58)
ProxyY(h) == (58 * h) \div 100 - (IF h \in ProxyShort THEN 1 ELSE 0)

\* the nose detection's result inside _is_user_attentive: NoPoint when the
\* cascade is missing or finds nothing, else the centre of the largest nose
NoseFound(face, noses) ==
    IF nose_cascade = "None" \/ Len(noses) = 0 THEN NoPoint
    ELSE LET n == Largest(noses)
         IN  <<face[1] + n[1] + n[3] \div 2, face[2] + n[2] + n[4] \div 2>>

\* _get_nose_center, given what the nose detection found in the face: the
\* detected nose centre, else the face-based proxy (line 122)
get_nose_center(face, found) ==
    IF found # NoPoint THEN found
    ELSE <<face[1] + face[3] \div 2, face[2] + ProxyY(face[4])>>

\* _is_user_attentive (lines 177-198): False without a nose, else whether
\* the nose centre is at or above the line
is_user_attentive_strict(face, noses, line_y) ==
    IF NoseFound(face, noses) = NoPoint THEN FALSE
    ELSE NoseFound(face, noses)[2] < line_y

is_user_attentive(face, noses, line_y) ==
    IF NoseFound(face, noses) = NoPoint THEN FALSE
    ELSE NoseFound(face, noses)[2] <= line_y

\* self.running after _is_user_attentive has run: the body at lines 180-198
\* assigns no attribute (the shadowed body at lines 129-133 would)
running_after_attentive_reset(run) == FALSE

running_after_attentive(run) == run

\* the rectangle update_preview draws: the largest detected face, none otherwise
FaceBox(faces) == IF Len(faces) > 0 THEN Largest(faces) ELSE NoRect

\* what update_preview leaves in last_face: it never assigns it
StickyUpdateStore(lf, faces) == IF Len(faces) > 0 THEN Largest(faces) ELSE lf

StickyUpdate(lf, faces) == lf

\* whether update_preview schedules itself again after a frame: line 308
\* follows both branches of the read, so it always does
Reschedule(frame) == TRUE

\* the label drawn with the box (line 282); nothing is drawn without a face
LabelSwapped(verdict) ==
    IF verdict = "attentive" THEN "Look at screen"
    ELSE IF verdict = "inattentive" THEN "Facing screen"
    ELSE ""

Label(verdict) ==
    IF verdict = "attentive" THEN "Facing screen"
    ELSE IF verdict = "inattentive" THEN "Look at screen"
    ELSE ""

NoResult == [kind |-> "none", height |-> 0, line_y |-> 0, box |-> NoRect,
             nose |-> NoPoint, verdict |-> "none", label |-> ""]

\* the outcome of the body of update_preview (lines 262-305) on one frame
FrameResult(frame) ==
    IF ~frame.ok THEN
        [NoResult EXCEPT !.kind = "noframe"]
    ELSE IF face_cascade = "None" THEN
        \* line 274 calls detectMultiScale on None
        [NoResult EXCEPT !.kind = "raised", !.height = frame.height]
    ELSE IF Len(frame.faces) > 0 THEN
        LET face    == FaceBox(frame.faces)
            line_y  == LineY(frame.height, line_position_percent)
            verdict == IF is_user_attentive(face, frame.noses, line_y)
                       THEN "attentive" ELSE "inattentive"
        IN  [kind    |-> "face",
             height  |-> frame.height,
             line_y  |-> line_y,
             box     |-> face,
             nose    |-> NoseFound(face, frame.noses),
             verdict |-> verdict,
             label   |-> Label(verdict)]
    ELSE
        [NoResult EXCEPT !.kind = "noface", !.height = frame.height,
                         !.line_y = LineY(frame.height, line_position_percent),
                         !.box = FaceBox(frame.faces)]

----------------------------------------------------------------------------
(* State after CameraUI(Camera()). *)

\* no pure function applied yet
NoCalc == [op |-> "none"]

DetectorsReadyAlways(face, nose) == TRUE

DetectorsReady(face, nose) == face # "None"

Init ==
    /\ running = FALSE
    /\ capture = "None"
    /\ start_button = "normal"
    /\ stop_button = "disabled"
    /\ line_position_percent = SliderDefault
    /\ face_cascade \in {"loaded", "None"}
    /\ nose_cascade \in {"loaded", "None"}
    /\ detectors_ready = DetectorsReady(face_cascade, nose_cascade)
    /\ last_face = NoRect
    /\ preview_text = "Click Start Camera to begin preview"
    /\ pending = 0
    /\ destroyed = FALSE
    /\ result = NoResult
    /\ seen = NoRect
    /\ seen_before = FALSE
    /\ calc = NoCalc

----------------------------------------------------------------------------
(* update_preview while running, on one frame; sched is the number of       *)
(* callbacks waiting once this run has been taken out of the queue.         *)

RunPreview(frame, sched) ==
    LET r == FrameResult(frame)
    IN  /\ result' = r
        /\ last_face' = IF r.kind \in {"face", "noface"}
                        THEN StickyUpdate(last_face, frame.faces)
                        ELSE last_face
        /\ preview_text' = IF r.kind = "noframe"
                           THEN "No frame received from camera"
                           ELSE IF r.kind = "raised" THEN preview_text
                           ELSE ""
        /\ pending' = IF r.kind # "raised" /\ Reschedule(frame)
                      THEN sched + 1 ELSE sched

\* the user clicks Start Camera
start_camera_runs_before_open ==
    /\ ~destroyed
    /\ start_button = "normal"
    /\ pending < MaxPending
    /\ IF ~detectors_ready THEN
           UNCHANGED vars
       ELSE
           \E opened \in BOOLEAN :
               IF capture # "opened" /\ ~opened THEN
                   /\ capture' = "unopened"
                   /\ running' = TRUE
                   /\ start_button' = "disabled"
                   /\ stop_button' = "normal"
                   /\ UNCHANGED <<line_position_percent, face_cascade,
                                  nose_cascade, detectors_ready, last_face,
                                  preview_text, pending, destroyed, result,
                                  seen, seen_before, calc>>
               ELSE
                   \E frame \in Frames(nose_cascade # "None") :
                       /\ capture' = "opened"
                       /\ running' = IF FrameResult(frame).kind = "face"
                                     THEN running_after_attentive(TRUE)
                                     ELSE TRUE
                       /\ start_button' = "disabled"
                       /\ stop_button' = "normal"
                       /\ RunPreview(frame, pending)
                       /\ seen' = FaceBox(frame.faces)
                       /\ seen_before' = (seen_before \/ seen # NoRect)
                       /\ UNCHANGED <<line_position_percent, face_cascade,
                                      nose_cascade, detectors_ready, destroyed,
                                      calc>>

start_camera ==
    /\ ~destroyed
    /\ start_button = "normal"
    /\ pending < MaxPending
    /\ IF ~detectors_ready THEN
           UNCHANGED vars
       ELSE
           \E opened \in BOOLEAN :
               IF capture # "opened" /\ ~opened THEN
                   /\ capture' = "unopened"
                   /\ UNCHANGED <<running, start_button, stop_button,
                                  line_position_percent, face_cascade,
                                  nose_cascade, detectors_ready, last_face,
                                  preview_text, pending, destroyed, result,
                                  seen, seen_before, calc>>
               ELSE
                   \E frame \in Frames(nose_cascade # "None") :
                       /\ capture' = "opened"
                       /\ running' = IF FrameResult(frame).kind = "face"
                                     THEN running_after_attentive(TRUE)
                                     ELSE TRUE
                       /\ start_button' = "disabled"
                       /\ stop_button' = "normal"
                       /\ RunPreview(frame, pending)
                       /\ seen' = FaceBox(frame.faces)
                       /\ seen_before' = (seen_before \/ seen # NoRect)
                       /\ UNCHANGED <<line_position_percent, face_cascade,
                                      nose_cascade, detectors_ready, destroyed,
                                      calc>>

\* the user clicks Stop Camera
stop_camera_keeps_buttons ==
    /\ ~destroyed
    /\ stop_button = "normal"
    /\ running' = FALSE
    /\ capture' = "None"
    /\ preview_text' = "Camera stopped"
    /\ UNCHANGED <<start_button, stop_button, line_position_percent,
                   face_cascade, nose_cascade, detectors_ready, last_face,
                   pending, destroyed, result, seen, seen_before, calc>>

stop_camera_keeps_capture ==
    /\ ~destroyed
    /\ stop_button = "normal"
    /\ running' = FALSE
    /\ start_button' = "normal"
    /\ stop_button' = "disabled"
    /\ preview_text' = "Camera stopped"
    /\ UNCHANGED <<capture, line_position_percent, face_cascade,
                   nose_cascade, detectors_ready, last_face, pending,
                   destroyed, result, seen, seen_before, calc>>

stop_camera ==
    /\ ~destroyed
    /\ stop_button = "normal"
    /\ running' = FALSE
    /\ capture' = "None"
    /\ start_button' = "normal"
    /\ stop_button' = "disabled"
    /\ preview_text' = "Camera stopped"
    /\ UNCHANGED <<line_position_percent, face_cascade, nose_cascade,
                   detectors_ready, last_face, pending, destroyed, result,
                   seen, seen_before, calc>>

\* a scheduled update_preview callback fires
update_preview ==
    /\ ~destroyed
    /\ pending > 0
    /\ IF ~running THEN
           /\ pending' = pending - 1
           /\ UNCHANGED <<running, capture, start_button, stop_button,
                          line_position_percent, face_cascade, nose_cascade,
                          detectors_ready, last_face, preview_text, destroyed,
                          result, seen, seen_before, calc>>
       ELSE
           \E frame \in Frames(nose_cascade # "None") :
               /\ RunPreview(frame, pending - 1)
               /\ seen' = IF Len(frame.faces) > 0 THEN FaceBox(frame.faces)
                          ELSE seen
               /\ running' = IF FrameResult(frame).kind = "face"
                             THEN running_after_attentive(running)
                             ELSE running
               /\ UNCHANGED <<capture, start_button, stop_button,
                              line_position_percent, face_cascade,
                              nose_cascade, detectors_ready, destroyed,
                              seen_before, calc>>

\* the user drags the attention line slider
set_line_slider ==
    /\ ~destroyed
    /\ \E v \in SliderValues \ {line_position_percent} :
           line_position_percent' = v
    /\ UNCHANGED <<running, capture, start_button, stop_button, face_cascade,
                   nose_cascade, detectors_ready, last_face, preview_text,
                   pending, destroyed, result, seen, seen_before, calc>>

\* the user closes the window
on_close ==
    /\ ~destroyed
    /\ running' = FALSE
    /\ capture' = "None"
    /\ destroyed' = TRUE
    /\ UNCHANGED <<start_button, stop_button, line_position_percent,
                   face_cascade, nose_cascade, detectors_ready, last_face,
                   preview_text, pending, result, seen, seen_before, calc>>

Next ==
    \/ start_camera
    \/ stop_camera
    \/ update_preview
    \/ set_line_slider
    \/ on_close

Spec == Init /\ [][Next]_vars

----------------------------------------------------------------------------
(* The pure functions on drawn inputs. *)

\* band positions handed to the clamp: below, inside and above the frame
ClampPositions == (0 - MaxClampHeight) .. (2 * MaxClampHeight)

\* candidate lists handed to max(..., key=area): faces (line 277) and noses
\* (line 191)
Candidates ==
    (SeqUpTo(FaceRects, MaxFaces) \cup SeqUpTo(NoseRects, MaxNoses)) \ {<<>>}

\* the band clamp applied once and twice
apply_clamp ==
    /\ \E p \in ClampPositions, h \in 1..MaxClampHeight :
           calc' = [op |-> "clamp", p |-> p, h |-> h, once |-> clamp(p, h),
                    twice |-> clamp(clamp(p, h), h)]
    /\ UNCHANGED progvars

\* the largest candidate selected from a detection's candidate list
select_largest ==
    /\ \E c \in Candidates :
           calc' = [op |-> "largest", cands |-> c, selected |-> Largest(c)]
    /\ UNCHANGED progvars

NextPure ==
    \/ apply_clamp
    \/ select_largest

SpecPure == Init /\ [][NextPure]_vars


----------------------------------------------------------------------------
(* Claims. *)

\* the nose point the estimator of the specification yields for the last
\* frame's face: the detected nose, else the proxy
NosePoint == get_nose_center(result.box, result.nose)

\* the line variant of the outside test: point.y <= band position
IsOutside(point, position) == point[2] <= position

C2_NoDetectorNoViolationIsAttentive ==
    (result.kind = "face" /\ nose_cascade = "None"
        /\ ~IsOutside(NosePoint, result.line_y))
    => result.verdict = "attentive"

\* C3: after any frame of a session in which a face was detected, last_face
\* is exactly the rectangle detected most recently (kept over no-detection
\* frames, overwritten by a detection).
C3_StickyIsLastDetected ==
    (result.kind \in {"face", "noface"} /\ seen # NoRect)
    => last_face = seen

\* C4: a no-detection frame after a detection in the session re-emits the
\* remembered rectangle as the face box with a non-attentive verdict.
C4_DropoutReemitsBox ==
    (result.kind = "noface" /\ seen # NoRect)
    => (result.box = seen /\ result.verdict = "inattentive")

AttentionState ==
    IF result.kind = "face" THEN "Tracking"
    ELSE IF last_face # NoRect THEN "DroppedOut"
    ELSE "NoFaceEver"

\* C7: after a detection in the session, every frame is in Tracking or in
\* DroppedOut (sticky rectangle present), never in NoFaceEver.
C7_NeverBackToNoFaceEver ==
    (result.kind \in {"face", "noface"} /\ seen # NoRect)
    => AttentionState # "NoFaceEver"

\* C8: in every frame that uses the line position, 0 <= position < frame
\* height.
C8_LineInsideFrame ==
    result.kind \in {"face", "noface"}
    => (0 <= result.line_y /\ result.line_y < result.height)

\* C8 witness: the slider at its upper end on a frame of height 1, after the
\* frame height changed from that of a frame with a face.
C8_Witness ==
    /\ result.kind = "noface"
    /\ result.height = 1
    /\ line_position_percent = SliderTo
    /\ result.line_y = LineY(1, SliderTo)
    /\ seen # NoRect

\* C9: after a failed frame read no tick is scheduled while the loop is
\* still running: the read is not retried.
C9_ReadFailureHalts ==
    result.kind = "noframe" => ~(running /\ pending > 0)

\* C10: with the face detector loaded and the nose detector missing, the
\* loop may start and every frame's nose point is the geometric proxy.
C10_MissingNoseUsesProxy ==
    (face_cascade # "None" /\ nose_cascade = "None")
    => /\ detectors_ready
       /\ result.kind = "face"
          => result.nose = get_nose_center(result.box, NoPoint)

C12_DropoutStatus ==
    (running /\ result.kind = "noface" /\ seen # NoRect)
    => preview_text \in {"Tracking alert: user turned away from camera",
                         "Tracking alert: face not found"}

\* C13: the band clamp is idempotent: clamp(clamp(p, h), h) = clamp(p, h)
\* for all positions p and all heights h > 0.
C13_ClampIdempotent ==
    calc.op = "clamp" => calc.twice = calc.once

\* C13 witness: a position above the frame, clamped to the last row.
C13_Witness ==
    /\ calc.op = "clamp"
    /\ calc.p > calc.h
    /\ calc.once = calc.h - 1
    /\ calc.twice = calc.h - 1

\* C16: the candidate selected from a non-empty candidate list has an area
\* at least that of every candidate, and it is fixed by the list: the first
\* candidate of the largest area, also when several tie.
C16_LargestSelected ==
    calc.op = "largest"
    => \E i \in 1..Len(calc.cands) :
           /\ calc.cands[i] = calc.selected
           /\ \A j \in 1..Len(calc.cands) :
                  Area(calc.cands[j]) <= Area(calc.selected)
           /\ \A j \in 1..(i - 1) :
                  Area(calc.cands[j]) < Area(calc.selected)

\* C16 witness: two candidates tie for the largest area and the first is
\* selected.
C16_Witness ==
    /\ calc.op = "largest"
    /\ Len(calc.cands) >= 2
    /\ calc.cands[1] # calc.cands[2]
    /\ Area(calc.cands[1]) = Area(calc.cands[2])
    /\ calc.selected = calc.cands[1]

\* C14: at most one update_preview tick is pending at any time.
C14_OneTickPending ==
    pending <= 1

C17_ProxyPoint ==
    (result.kind = "face" /\ result.nose = NoPoint)
    => /\ NosePoint = <<result.box[1] + result.box[3] \div 2,
                        result.box[2] + (58 * result.box[4]) \div 100>>
       /\ result.box = <<100, 100, 80, 80>> => NosePoint = <<140, 146>>
       /\ (result.box = <<100, 100, 80, 80>> /\ result.line_y = 120)
              => result.verdict = "inattentive"

\* C18: while the window exists, running is true exactly when the Start
\* button is disabled, and exactly when the Stop button is enabled.
C18_ButtonsMirrorRunning ==
    ~destroyed
    => /\ running <=> start_button = "disabled"
       /\ running <=> stop_button = "normal"

\* C18 witness: running again after a stop, Start disabled and Stop enabled.
C18_Witness ==
    /\ ~destroyed
    /\ running
    /\ seen_before
    /\ start_button = "disabled"
    /\ stop_button = "normal"

\* C19: while the loop stays stopped no frame is read or processed, no tick
\* is scheduled (the pending ones only drain) and the capture is not open.
C19_StoppedStaysStopped ==
    [][(~running /\ ~running')
        => /\ result' = result
           /\ pending' <= pending
           /\ capture' # "opened"]_vars

\* C19 witness: stopped after frames were processed, every pending tick has
\* returned and the capture is released.
C19_Witness ==
    /\ ~destroyed
    /\ ~running
    /\ result.kind = "face"
    /\ preview_text = "Camera stopped"
    /\ pending = 0
    /\ capture = "None"

\* C20: a start_camera that fails leaves running false, the buttons as they
\* were and no tick scheduled: nothing ever runs without the detectors
\* ready, and a failed open of the camera changes none of them.
C20_FailedStartChangesNothing ==
    /\ [](~detectors_ready
            => /\ ~running
               /\ pending = 0
               /\ start_button = "normal"
               /\ stop_button = "disabled")
    /\ [][(capture # "unopened" /\ capture' = "unopened")
            => /\ ~running'
               /\ start_button' = start_button
               /\ stop_button' = stop_button
               /\ pending' = pending]_vars

\* C20 witness: the camera could not be opened after an earlier session;
\* not running, Start enabled.
C20_Witness ==
    /\ capture = "unopened"
    /\ ~running
    /\ start_button = "normal"
    /\ stop_button = "disabled"
    /\ result.kind # "none"

=============================================================================
